---------------------------- MODULE Spec2Model ----------------------------
(***************************************************************************)
(* rmdir-cli: the command line front end (the brutal-mode version, lines   *)
(* 274-746 of src/unnamed/part_000).                                       *)
(*                                                                         *)
(* The program is one synchronous main script followed by the JavaScript   *)
(* event loop.  The main script parses the arguments, runs the executor of *)
(* rmdirWithConfirmation for every target in order and calls Promise.all.  *)
(* Afterwards the microtask queue (promise reaction jobs, FIFO) is drained *)
(* after every macrotask; the only macrotasks are the answers typed at an  *)
(* open readline prompt.  process.exit stops everything at once.           *)
(*                                                                         *)
(* Everything the program does to its environment is appended to `trace`.  *)
(***************************************************************************)
EXTENDS Naturals, Integers, Sequences, FiniteSets, TLC

(* ----------------------------- bounds --------------------------------- *)

\* longest argument list explored
MaxArgs == 4

\* most directory paths in one argument list
MaxTargets == 2

(* ------------------------------ inputs -------------------------------- *)

\* directory paths that may be named on the command line
Paths == {"d1", "d2"}

\* argument tokens that begin with "-"
DashTokens == {"--help", "-v", "--force", "-b", "--yes", "-x"}

Tokens == DashTokens \cup Paths

\* what the file system holds at a path
FsStatus == {"missing", "notdir", "denied", "ioerror", "empty", "nonempty", "unreadable"}

\* lines a user may type at a prompt
Answers == {"YES", "n", ""}

\* pid lists the open-files lister may report (before de-duplication)
ScanOutputs == {<< >>, <<7, 7>>, <<7, 9>>}

\* processes the termination command succeeds on
Killable == {7}

\* process ids a listing can report
Pids == {7, 9}

\* longest process list handed to killProcesses on its own
MaxHandles == 3

\* lines a user can type at a prompt, with the case and the blanks that matter
AnswerLines ==
    {"y", "Y", "yes", "YES", "Yes", "yEs", " y", "y ", "yes ", " ",
     "", "n", "N", "no", "NO", "ye", "yess", "ok"}

\* most lines a listing command prints
MaxLines == 2

\* parseInt of a field that is no number
NaN == 0

\* a line of a listing: how many fields it splits into and what parseInt
\* makes of its pid field
Lines ==
    {[parts |-> 1, pid |-> NaN], [parts |-> 2, pid |-> NaN]}
        \cup {[parts |-> 2, pid |-> p] : p \in Pids}

\* most entries a directory of the size walk holds
MaxEntries == 2

\* stats.size of the files of the size walk
FileSizes == {1, 2}

\* an entry of a directory: statSync on it returns or throws; a directory
\* has a listing that readdirSync returns or throws on
File(sz, stat) ==
    [kind |-> "file", stat |-> stat, size |-> sz, list |-> "ok",
     entries |-> << >>]

Dir(stat, list, entries) ==
    [kind |-> "dir", stat |-> stat, size |-> 0, list |-> list,
     entries |-> entries]

\* files, among them files statSync throws on (a dangling link)
Files == {File(sz, "ok") : sz \in FileSizes} \cup {File(1, "error")}

\* directories one level down: files only, or a listing that throws
SubDirs ==
    {Dir("ok", "ok", es) : es \in UNION {[1..n -> Files] : n \in 0..MaxEntries}}
        \cup {Dir("ok", "error", << >>)}

\* the listings of the directory the walk starts in
RootListings(n) == [1..n -> Files \cup SubDirs]

\* handle.exe: ran, is not installed, ended with an error, or hung
HandleStates == {"ran", "missing", "failed", "timeout"}

\* a command whose execSync returns its output or throws
CommandStates == {"ok", "throws"}

VARIABLES
    argv,       \* args of parseArgs: process.argv.slice(2), gone once it returns
    fs,         \* file system: path -> FsStatus
    pc,         \* "parse", "main", "map", "all", "loop", "exited"
    options,    \* the record parseArgs returns
    idx,        \* position of directories.map
    promise,    \* outer promise of rmdirWithConfirmation, per target
    prompts,    \* targets whose rl.question is waiting for a line
    procs,      \* per target: the processes the scan resolved with
    allState,   \* the Promise.all promise: "none", "pending", "fulfilled", "rejected"
    remaining,  \* Promise.all's remainingElementsCount
    micro,      \* microtask queue
    trace,      \* everything done so far, in order
    exitCode,   \* -1 while running
    unit        \* a function applied on its own: [fn, in, out]; NoCall in a run of the program

vars == <<argv, fs, pc, options, idx, promise, prompts, procs, allState,
          remaining, micro, trace, exitCode, unit>>

(* ------------------------------ helpers ------------------------------- *)

Ev(op, tgt, val, num) == [op |-> op, tgt |-> tgt, val |-> val, num |-> num]

Job(k, t, v, n) == [k |-> k, t |-> t, v |-> v, n |-> n]

SeqsUpTo(S, n) == UNION {[1..k -> S] : k \in 0..n}

PathsOf(args) == {args[k] : k \in DOMAIN args} \cap Paths

\* arg.startsWith("-")
StartsWithDash(arg) == arg \in DashTokens

\* no function is being applied on its own
NoCall == [fn |-> "none"]

NoOptions ==
    [force |-> FALSE, yes |-> FALSE, brutal |-> FALSE, help |-> FALSE,
     version |-> FALSE, directories |-> << >>, unknown |-> ""]

\* the loop of parseArgs from position i on; an unknown option stops it
\* (process.exit(1)) and is recorded in the field unknown
RECURSIVE ParseFrom(_, _, _)
ParseFrom(args, i, o) ==
    IF i > Len(args) THEN o
    ELSE LET arg == args[i] IN
         IF arg = "--help" \/ arg = "-h" THEN
             ParseFrom(args, i + 1, [o EXCEPT !.help = TRUE])
         ELSE IF arg = "--version" \/ arg = "-v" THEN
             ParseFrom(args, i + 1, [o EXCEPT !.version = TRUE])
         ELSE IF arg = "--force" \/ arg = "-f" THEN
             ParseFrom(args, i + 1, [o EXCEPT !.force = TRUE])
         ELSE IF arg = "--brutal" \/ arg = "-b" THEN
             ParseFrom(args, i + 1, [o EXCEPT !.brutal = TRUE])
         ELSE IF arg = "--yes" \/ arg = "-y" THEN
             ParseFrom(args, i + 1, [o EXCEPT !.yes = TRUE])
         ELSE IF StartsWithDash(arg) THEN
             [o EXCEPT !.unknown = arg]
         ELSE
             ParseFrom(args, i + 1,
                       [o EXCEPT !.directories = Append(@, arg)])

parseArgs(args) == ParseFrom(args, 1, NoOptions)

\* fs.statSync + stats.isDirectory(): what checkDirectory reports
StatResult(st) ==
    CASE st = "missing" -> "ENOENT"
      [] st = "denied"  -> "EACCES"
      [] st = "ioerror" -> "EIO"
      [] st = "notdir"  -> "notdir"
      [] OTHER          -> "ok"

\* variant: only a missing path and a non-directory are turned away
checkDirectory_OnlyMissingFails(st) == StatResult(st) \notin {"ENOENT", "notdir"}

checkDirectory(st) == StatResult(st) = "ok"

\* fs.readdirSync: "error" when the listing throws
ReaddirResult(st) ==
    CASE st = "empty"    -> "empty"
      [] st = "nonempty" -> "nonempty"
      [] OTHER           -> "error"

\* variant: a listing that throws counts as an empty directory
isDirectoryEmpty_ErrorIsEmpty(st) == ReaddirResult(st) # "nonempty"

isDirectoryEmpty(st) == ReaddirResult(st) = "empty"

\* variant: --yes taken as permission to delete a non-empty directory
NotEmptyRejected_YesPermits(isEmpty, o) ==
    ~isEmpty /\ ~o.force /\ ~o.brutal /\ ~o.yes

\* variant: the flags are tested without looking at the listing
NotEmptyRejected_FlagsOnly(isEmpty, o) == ~o.force /\ ~o.brutal

\* the guard of line 615
NotEmptyRejected(isEmpty, o) == ~isEmpty /\ ~o.force /\ ~o.brutal

\* walkDir, lines 396-414: entries[k..] of a listing that was read; an
\* error of statSync leaves forEach and is caught by the walkDir of the
\* directory being listed, so the entries after it are not visited; a
\* nested walkDir catches its own errors and the loop goes on after it
RECURSIVE WalkFrom(_, _, _)
WalkFrom(entries, k, acc) ==
    IF k > Len(entries) THEN acc
    ELSE LET e == entries[k] IN
         IF e.stat = "error" THEN acc
         ELSE IF e.kind = "dir"
         THEN WalkFrom(entries, k + 1,
                       IF e.list = "error" THEN acc
                       ELSE WalkFrom(e.entries, 1, acc))
         ELSE WalkFrom(entries, k + 1,
                       [size |-> acc.size + e.size, files |-> acc.files + 1])

\* getDirectorySize, lines 392-418
getDirectorySize(dir) ==
    IF dir.list = "error" THEN [size |-> 0, files |-> 0]
    ELSE WalkFrom(dir.entries, 1, [size |-> 0, files |-> 0])

\* answer.toLowerCase()
toLowerCase(s) ==
    CASE s = "Y"   -> "y"
      [] s = "YES" -> "yes"
      [] s = "Yes" -> "yes"
      [] s = "yEs" -> "yes"
      [] s = "N"   -> "n"
      [] s = "NO"  -> "no"
      [] OTHER     -> s

\* the line without the blanks around it
trim(s) ==
    CASE s = " y"   -> "y"
      [] s = "y "   -> "y"
      [] s = "yes " -> "yes"
      [] s = " "    -> ""
      [] OTHER      -> s

\* variant: the answer is trimmed before it is compared
Confirmed_Trimmed(answer) ==
    toLowerCase(trim(answer)) = "y" \/ toLowerCase(trim(answer)) = "yes"

\* the test of lines 579-580 and 593-594
Confirmed(answer) == toLowerCase(answer) = "y" \/ toLowerCase(answer) = "yes"

\* the callback of rl.question, lines 577-585 (brutal prompt) and 591-599
\* (normal prompt): what it resolves with and whether it prints
\* "Operation cancelled."
questionCallback(brutal, answer) ==
    IF brutal
    THEN [confirmed |-> Confirmed(answer), cancelled |-> ~Confirmed(answer)]
    ELSE [confirmed |-> Confirmed(answer), cancelled |-> ~Confirmed(answer)]

\* the duplicate filter of lines 503-512
\* variant: seenPids.add is left out
RECURSIVE UniqueFrom_NoAdd(_, _, _)
UniqueFrom_NoAdd(ps, i, seen) ==
    IF i > Len(ps) THEN << >>
    ELSE IF ps[i] \in seen THEN UniqueFrom_NoAdd(ps, i + 1, seen)
    ELSE <<ps[i]>> \o UniqueFrom_NoAdd(ps, i + 1, seen)

RECURSIVE UniqueFrom(_, _, _)
UniqueFrom(ps, i, seen) ==
    IF i > Len(ps) THEN << >>
    ELSE IF ps[i] \in seen THEN UniqueFrom(ps, i + 1, seen)
    ELSE <<ps[i]>> \o UniqueFrom(ps, i + 1, seen \cup {ps[i]})

uniqueProcesses(ps) == UniqueFrom(ps, 1, {})

PidsOf(lines) == [k \in DOMAIN lines |-> lines[k].pid]

\* execSync of 'handle.exe "<dir>" 2>nul || echo "handle.exe not found"',
\* lines 432-435: the echo runs when handle.exe is missing or fails, and the
\* command then succeeds; execSync throws only when the command hangs
HandleCommand(tool) ==
    [threw    |-> tool.state = "timeout",
     notFound |-> tool.state \in {"missing", "failed"},
     lines    |-> tool.lines]

\* lines 437-451: lines with "pid: <digits>"
ParseHandle(lines) ==
    PidsOf(SelectSeq(lines, LAMBDA l : l.pid # NaN))

\* lines 460-470: every line of two fields or more, its pid parsed or not
ParseTasklist(lines) ==
    PidsOf(SelectSeq(lines, LAMBDA l : l.parts >= 2))

\* lines 484-494: lines of two fields or more whose second is a number
ParseLsof(lines) ==
    PidsOf(SelectSeq(lines, LAMBDA l : l.parts >= 2 /\ l.pid # NaN))

\* the win32 branch, lines 429-474
ScanWin32(env) ==
    LET h == HandleCommand(env.handle) IN
    IF ~h.threw
    THEN [cmds |-> <<"handle">>,
          raw  |-> IF h.notFound THEN << >> ELSE ParseHandle(h.lines)]
    ELSE [cmds |-> <<"handle", "tasklist">>,
          raw  |-> IF env.tasklist.state = "ok"
                   THEN ParseTasklist(env.tasklist.lines) ELSE << >>]

\* the branch of the other platforms, lines 475-497
ScanLsof(env) ==
    [cmds |-> <<"lsof">>,
     raw  |-> IF env.lsof.state = "ok" THEN ParseLsof(env.lsof.lines)
              ELSE << >>]

\* getProcessesUsingDirectory, lines 421-516: the promise always resolves
getProcessesUsingDirectory(env) ==
    LET r == IF env.platform = "win32" THEN ScanWin32(env) ELSE ScanLsof(env)
    IN [state |-> "fulfilled", cmds |-> r.cmds,
        processes |-> uniqueProcesses(r.raw)]

Range(s) == {s[k] : k \in DOMAIN s}

SelectPids(ps, S) == SelectSeq(ps, LAMBDA x : x \in S)


\* line 553: the gate answers at once in non-interactive mode
GateSkipsPrompt(o) == o.yes

\* nothing tried yet: var killed = []; var failed = [];  (lines 521-522)
NoKills == [tried |-> << >>, killed |-> << >>, failed |-> << >>]

\* variant: the loop gives up after the first failed termination
KillStep_StopAtFailure(acc, p, ok) ==
    IF acc.failed # << >> THEN acc
    ELSE [tried  |-> Append(acc.tried, [pid |-> p, ok |-> ok]),
          killed |-> IF ok THEN Append(acc.killed, p) ELSE acc.killed,
          failed |-> IF ok THEN acc.failed ELSE Append(acc.failed, p)]

\* one turn of processes.forEach, lines 527-538: execSync returns (ok) or
\* throws, and the process goes to killed or to failed
KillStep(acc, p, ok) ==
    [tried  |-> Append(acc.tried, [pid |-> p, ok |-> ok]),
     killed |-> IF ok THEN Append(acc.killed, p) ELSE acc.killed,
     failed |-> IF ok THEN acc.failed ELSE Append(acc.failed, p)]

RECURSIVE KillLoop(_, _, _, _)
KillLoop(ps, ok, k, acc) ==
    IF k > Len(ps) THEN acc
    ELSE KillLoop(ps, ok, k + 1, KillStep(acc, ps[k], ok[k]))

\* lines 540-547: the promise rejects with {killed, failed} when a
\* termination failed, and resolves with the killed list otherwise
KillSettle(acc) ==
    IF Len(acc.failed) > 0
    THEN [state |-> "rejected", tried |-> acc.tried,
          value |-> [shape |-> "record", killed |-> acc.killed,
                     failed |-> acc.failed]]
    ELSE [state |-> "fulfilled", tried |-> acc.tried,
          value |-> [shape |-> "list", items |-> acc.killed]]

\* killProcesses, lines 519-549; ok[k] is the outcome of the k-th execSync
killProcesses(ps, ok) == KillSettle(KillLoop(ps, ok, 1, NoKills))

\* the outcome of each termination in a run of the program
KillOutcomes(ps) == [k \in 1..Len(ps) |-> ps[k] \in Killable]

\* what lines 527-538 do for target i
KillEvents(i, ps) ==
    LET tried == killProcesses(ps, KillOutcomes(ps)).tried IN
    [k \in 1..Len(tried) |->
        Ev("kill", i, IF tried[k].ok THEN "ok" ELSE "fail", tried[k].pid)]

\* rmdir(dirpath) of ../index: the tree is gone when it returns, an error
\* leaves it in place
Removed(st, ok) == IF ok THEN "missing" ELSE st

\* variant: the error of rmdir is swallowed
RemoveOutcome_Swallow(ok) == "true"

\* try { rmdir(dirpath); resolve(true) } catch (err) { reject(err) }
\* (lines 675-684 and 690-699)
RemoveOutcome(ok) == IF ok THEN "true" ELSE "rejected"

\* promise reaction jobs between a callback's return and the next callback
\* of the chain
\* line 670: return Promise.resolve(true) (thenable job, then its reaction)
HopsPlain == 2
\* lines 660-663 and 665: value of the .then of 634, then the .catch of 665
HopsNoProcs == 2
\* lines 642-659 and 665: .then 643, .catch 647, the .then of 634, the .catch
\* of 665, then the promise of the callback of 624
HopsKill == 5

\* resolve(v) / reject(err) of the outer promise: only the first call counts
Settle(cur, v) == IF cur = "pending" THEN v ELSE cur

\* the reaction Promise.all registered on the outer promise of target i
Reaction(i, v) == IF v = "rejected" THEN Job("rej", i, "", 0)
                  ELSE Job("elem", i, v, 0)

\* jobs queued when a pending outer promise settles
OnSettle(i, cur, v) == IF cur = "pending" THEN <<Reaction(i, v)>> ELSE << >>

NTargets == Len(options.directories)

Exit(code) == Ev("exit", 0, "", code)

(* ------------------------------- Init --------------------------------- *)

Init ==
    /\ argv \in {a \in SeqsUpTo(Tokens, MaxArgs) :
                    Cardinality({k \in DOMAIN a : a[k] \in Paths}) <= MaxTargets}
    /\ fs \in [PathsOf(argv) -> FsStatus]
    /\ pc = "parse"
    /\ options = NoOptions
    /\ idx = 0
    /\ promise = << >>
    /\ prompts = {}
    /\ procs = << >>
    /\ allState = "none"
    /\ remaining = 0
    /\ micro = << >>
    /\ trace = << >>
    /\ exitCode = -1
    /\ unit = NoCall

(* --------------------------- main script ------------------------------ *)

\* var options = parseArgs();  (lines 283-317, 705)
ParseArgsStep ==
    /\ pc = "parse"
    /\ LET o == parseArgs(argv) IN
       /\ options' = o
       /\ IF o.unknown # ""
          THEN /\ trace' = trace \o <<Ev("unknownOption", 0, o.unknown, 0),
                                     Ev("usage", 0, "", 0), Exit(1)>>
               /\ pc' = "exited"
               /\ exitCode' = 1
          ELSE /\ pc' = "main"
               /\ UNCHANGED <<trace, exitCode>>
    /\ argv' = << >>
    /\ UNCHANGED <<unit, fs, idx, promise, prompts, procs, allState, remaining,
                   micro>>

\* variant: the targets are looked at before the help and version flags
MainBranch_TargetsFirst(o) ==
    IF Len(o.directories) > 0 THEN "process"
    ELSE IF o.help THEN "help"
    ELSE IF o.version THEN "version"
    ELSE "nodir"

\* variant: a run without a target is answered like --help
MainBranch_NoTargetIsHelp(o) ==
    IF o.help \/ Len(o.directories) = 0 THEN "help"
    ELSE IF o.version THEN "version"
    ELSE "process"

\* which branch of the if-chain of lines 707-717 is taken
MainBranch(o) ==
    IF o.help THEN "help"
    ELSE IF o.version THEN "version"
    ELSE IF Len(o.directories) = 0 THEN "nodir"
    ELSE "process"

\* the if-chain of lines 707-717
MainStep ==
    /\ pc = "main"
    /\ IF MainBranch(options) = "help" THEN
           /\ trace' = trace \o <<Ev("usage", 0, "", 0), Exit(0)>>
           /\ pc' = "exited" /\ exitCode' = 0
           /\ UNCHANGED <<idx, promise, procs>>
       ELSE IF MainBranch(options) = "version" THEN
           /\ trace' = trace \o <<Ev("version", 0, "", 0), Exit(0)>>
           /\ pc' = "exited" /\ exitCode' = 0
           /\ UNCHANGED <<idx, promise, procs>>
       ELSE IF MainBranch(options) = "nodir" THEN
           /\ trace' = trace \o <<Ev("noDirectory", 0, "", 0),
                                  Ev("usage", 0, "", 0), Exit(1)>>
           /\ pc' = "exited" /\ exitCode' = 1
           /\ UNCHANGED <<idx, promise, procs>>
       ELSE
           /\ pc' = "map"
           /\ idx' = 1
           /\ promise' = [i \in 1..NTargets |-> "none"]
           /\ procs' = [i \in 1..NTargets |-> << >>]
           /\ UNCHANGED <<trace, exitCode>>
    /\ UNCHANGED <<unit, argv, fs, options, prompts, allState, remaining, micro>>

\* the executor of rmdirWithConfirmation for target idx (lines 606-701),
\* up to the point where it returns to directories.map
RmdirWithConfirmation ==
    /\ pc = "map"
    /\ LET i  == idx
           d  == options.directories[i]
           st == fs[d]
           statEv == Ev("stat", i, StatResult(st), 0)
           listEv == Ev("readdir", i, ReaddirResult(st), 0)
       IN
       /\ IF ~checkDirectory(st) THEN
              /\ trace' = trace \o <<statEv>>
              /\ promise' = [promise EXCEPT ![i] = "rejected"]
              /\ UNCHANGED <<fs, prompts, micro>>
          ELSE IF NotEmptyRejected(isDirectoryEmpty(st), options) THEN
              /\ trace' = trace \o <<statEv, listEv, Ev("notEmptyMsg", i, "", 0)>>
              /\ promise' = [promise EXCEPT ![i] = "rejected"]
              /\ UNCHANGED <<fs, prompts, micro>>
          ELSE IF ~isDirectoryEmpty(st) THEN
              \* confirmDeletion, lines 552-603
              /\ promise' = [promise EXCEPT ![i] = "pending"]
              /\ IF GateSkipsPrompt(options)
                 THEN /\ trace' = trace \o <<statEv, listEv>>
                      /\ micro' = Append(micro, Job("cb1", i, "true", 0))
                      /\ UNCHANGED prompts
                 ELSE /\ trace' = trace \o
                            <<statEv, listEv, Ev("size", i, "", 0),
                              Ev("prompt", i,
                                 IF options.brutal THEN "brutal" ELSE "normal", 0)>>
                      /\ prompts' = prompts \cup {i}
                      /\ UNCHANGED micro
              /\ UNCHANGED fs
          ELSE
              \* lines 689-700
              \E ok \in BOOLEAN :
                  /\ trace' = trace \o
                        <<statEv, listEv,
                          Ev("rmdir", i, IF ok THEN "ok" ELSE "error", 0)>>
                  /\ fs' = [fs EXCEPT ![d] = Removed(st, ok)]
                  /\ promise' = [promise EXCEPT ![i] = RemoveOutcome(ok)]
                  /\ UNCHANGED <<prompts, micro>>
       /\ idx' = i + 1
       /\ pc' = IF i = NTargets THEN "all" ELSE "map"
    /\ UNCHANGED <<unit, argv, options, procs, allState, remaining, exitCode>>

\* reactions Promise.all queues at once for the promises already settled
RECURSIVE SettledReactions(_, _)
SettledReactions(pr, i) ==
    IF i > Len(pr) THEN << >>
    ELSE (IF pr[i] = "pending" THEN << >> ELSE <<Reaction(i, pr[i])>>)
         \o SettledReactions(pr, i + 1)

\* Promise.all(promises).then(...).catch(...), lines 723-745
PromiseAll ==
    /\ pc = "all"
    /\ allState' = "pending"
    /\ remaining' = NTargets
    /\ micro' = micro \o SettledReactions(promise, 1)
    /\ pc' = "loop"
    /\ UNCHANGED <<unit, argv, fs, options, idx, promise, prompts, procs, trace,
                   exitCode>>

(* ---------------------------- event loop ------------------------------ *)

\* a line arrives at the open prompt of target i: the callback of
\* rl.question (lines 577-585, 591-599)
Answer(i, line) ==
    /\ pc = "loop"
    /\ micro = << >>
    /\ i \in prompts
    /\ prompts' = prompts \ {i}
    /\ LET r == questionCallback(options.brutal, line) IN
       /\ trace' = trace \o <<Ev("answer", i, line, 0)>> \o
                   (IF r.cancelled THEN <<Ev("cancelled", i, "", 0)>>
                    ELSE << >>)
       /\ micro' = <<Job("cb1", i, IF r.confirmed THEN "true" ELSE "false", 0)>>
    /\ UNCHANGED <<unit, argv, fs, pc, options, idx, promise, procs, allState,
                   remaining, exitCode>>

Running(kind) == pc = "loop" /\ micro # << >> /\ Head(micro).k = kind

\* variant: the answer of the gate is not looked at
AfterConfirm_IgnoreAnswer(confirmed, o) ==
    IF o.brutal THEN "brutal" ELSE "plain"

\* variant: every accepted target is scanned for processes
AfterConfirm_AlwaysScan(confirmed, o) ==
    IF ~confirmed THEN "cancel" ELSE "brutal"

\* what the callback of line 624 does with the gate's answer:
\* "cancel" (resolve(false) and return), "brutal" (scan) or "plain"
AfterConfirm(confirmed, o) ==
    IF ~confirmed THEN "cancel"
    ELSE IF o.brutal THEN "brutal"
    ELSE "plain"

\* the promise the callback of line 624 hands to the .then of line 673:
\* after `return;` it is fulfilled at once, so the callback of 673 is next
AfterCancel(i) == <<Job("cb2", i, "", 0)>>

\* .then(function (confirmed) {...}), lines 624-672
ConfirmCallback ==
    /\ Running("cb1")
    /\ LET j == Head(micro)
           i == j.t
           what == AfterConfirm(j.v = "true", options)
       IN
       IF what = "cancel" THEN
           /\ promise' = [promise EXCEPT ![i] = Settle(@, "false")]
           /\ micro' = Tail(micro) \o OnSettle(i, promise[i], "false")
                                   \o AfterCancel(i)
           /\ UNCHANGED <<procs, trace>>
       ELSE IF what = "brutal" THEN
           \* getProcessesUsingDirectory, lines 421-516
           \E raw \in ScanOutputs :
               /\ procs' = [procs EXCEPT ![i] = uniqueProcesses(raw)]
               /\ trace' = Append(trace, Ev("scan", i, "", Len(uniqueProcesses(raw))))
               /\ micro' = Append(Tail(micro), Job("procs", i, "", 0))
               /\ UNCHANGED promise
       ELSE
           /\ micro' = Append(Tail(micro), Job("hop", i, "", HopsPlain))
           /\ UNCHANGED <<promise, procs, trace>>
    /\ UNCHANGED <<unit, argv, fs, pc, options, idx, prompts, allState, remaining,
                   exitCode>>

\* .then(function (processes) {...}), lines 634-664
ProcessesCallback ==
    /\ Running("procs")
    /\ LET i == Head(micro).t
           ps == procs[i]
       IN
       IF Len(ps) > 0
       THEN /\ trace' = trace \o KillEvents(i, ps)
            /\ micro' = Append(Tail(micro), Job("hop", i, "", HopsKill))
       ELSE /\ micro' = Append(Tail(micro), Job("hop", i, "", HopsNoProcs))
            /\ UNCHANGED trace
    /\ UNCHANGED <<unit, argv, fs, pc, options, idx, promise, prompts, procs,
                   allState, remaining, exitCode>>

\* a promise reaction job that only settles the next promise of the chain
Hop ==
    /\ Running("hop")
    /\ LET j == Head(micro) IN
       micro' = Append(Tail(micro),
                       IF j.n > 1 THEN Job("hop", j.t, "", j.n - 1)
                       ELSE Job("cb2", j.t, "", 0))
    /\ UNCHANGED <<unit, argv, fs, pc, options, idx, promise, prompts, procs,
                   allState, remaining, trace, exitCode>>

\* .then(function () {...}), lines 673-685
DeleteCallback ==
    /\ Running("cb2")
    /\ LET i == Head(micro).t
           d == options.directories[i]
       IN
       \E ok \in BOOLEAN :
           LET v == RemoveOutcome(ok) IN
           /\ trace' = Append(trace, Ev("rmdir", i, IF ok THEN "ok" ELSE "error", 0))
           /\ fs' = [fs EXCEPT ![d] = Removed(@, ok)]
           /\ promise' = [promise EXCEPT ![i] = Settle(@, v)]
           /\ micro' = Tail(micro) \o OnSettle(i, promise[i], v)
    /\ UNCHANGED <<unit, argv, pc, options, idx, prompts, procs, allState,
                   remaining, exitCode>>

\* Promise.all's resolve-element function for one fulfilled promise
AllResolveElement ==
    /\ Running("elem")
    /\ remaining' = remaining - 1
    /\ IF remaining = 1 /\ allState = "pending"
       THEN /\ allState' = "fulfilled"
            /\ micro' = Append(Tail(micro), Job("then", 0, "", 0))
       ELSE /\ micro' = Tail(micro)
            /\ UNCHANGED allState
    /\ UNCHANGED <<unit, argv, fs, pc, options, idx, promise, prompts, procs,
                   trace, exitCode>>

\* Promise.all's reject function for one rejected promise
AllReject ==
    /\ Running("rej")
    /\ IF allState = "pending"
       THEN /\ allState' = "rejected"
            /\ micro' = Append(Tail(micro), Job("pass", 0, "", 0))
       ELSE /\ micro' = Tail(micro)
            /\ UNCHANGED allState
    /\ UNCHANGED <<unit, argv, fs, pc, options, idx, promise, prompts, procs,
                   remaining, trace, exitCode>>

\* the rejection passes through .then(function (results) {...}), which has
\* no rejection handler, to the .catch of line 742
ThenPassThrough ==
    /\ Running("pass")
    /\ micro' = Append(Tail(micro), Job("catch", 0, "", 0))
    /\ UNCHANGED <<unit, argv, fs, pc, options, idx, promise, prompts, procs,
                   allState, remaining, trace, exitCode>>

\* results.filter(Boolean).length
successCount(pr) == Cardinality({i \in DOMAIN pr : pr[i] = "true"})

\* variant: only rejections count against success
AllSucceeded_NoFilter(pr) == \A i \in DOMAIN pr : pr[i] # "rejected"

\* does the handler of line 724 take the branch of line 728
AllSucceeded(pr) == successCount(pr) = Len(pr)

\* .then(function (results) {...}), lines 724-741
ThenHandler ==
    /\ Running("then")
    /\ IF AllSucceeded(promise)
       THEN /\ trace' = trace \o <<Ev("allDeleted", 0, "", 0), Exit(0)>>
            /\ exitCode' = 0
       ELSE /\ trace' = trace \o
                 <<Ev("summary", 0, "", successCount(promise)), Exit(1)>>
            /\ exitCode' = 1
    /\ pc' = "exited"
    /\ UNCHANGED <<unit, argv, fs, options, idx, promise, prompts, procs, allState,
                   remaining, micro>>

\* .catch(function (err) {...}), lines 742-745
CatchHandler ==
    /\ Running("catch")
    /\ trace' = trace \o <<Ev("operationFailed", 0, "", 0), Exit(1)>>
    /\ exitCode' = 1
    /\ pc' = "exited"
    /\ UNCHANGED <<unit, argv, fs, options, idx, promise, prompts, procs, allState,
                   remaining, micro>>

Next ==
    \/ ParseArgsStep
    \/ MainStep
    \/ RmdirWithConfirmation
    \/ PromiseAll
    \/ \E i \in prompts, line \in Answers : Answer(i, line)
    \/ ConfirmCallback
    \/ ProcessesCallback
    \/ Hop
    \/ DeleteCallback
    \/ AllResolveElement
    \/ AllReject
    \/ ThenPassThrough
    \/ ThenHandler
    \/ CatchHandler

Spec == Init /\ [][Next]_vars

(* ------------------ the functions applied on their own ---------------- *)

progVars == <<argv, fs, pc, options, idx, promise, prompts, procs, allState,
              remaining, micro, trace, exitCode>>

\* a call that has not returned yet
Call(fn, in) == [fn |-> fn, in |-> in, done |-> FALSE, out |-> << >>]

Return(out) == [unit EXCEPT !.done = TRUE, !.out = out]

\* killProcesses(processes) with every list and every outcome of each
\* termination command
KillCalls ==
    {Call("killProcesses", [ps |-> ps, ok |-> ok]) :
        <<ps, ok>> \in UNION {[1..n -> Pids] \X [1..n -> BOOLEAN] :
                                 n \in 0..MaxHandles}}

\* what a command can print
Outputs == SeqsUpTo(Lines, MaxLines)

NoCommand == [state |-> "throws", lines |-> << >>]

\* getProcessesUsingDirectory(dirpath) on every platform, with every state
\* and output of the commands it runs there
ScanCalls ==
    {Call("getProcessesUsingDirectory",
          [platform |-> "win32",
           handle   |-> [state |-> hs, lines |-> hl],
           tasklist |-> [state |-> ts, lines |-> tl],
           lsof     |-> NoCommand]) :
        <<hs, hl, ts, tl>> \in
            HandleStates \X Outputs \X CommandStates \X Outputs}
    \cup
    {Call("getProcessesUsingDirectory",
          [platform |-> "linux",
           handle   |-> NoCommand,
           tasklist |-> NoCommand,
           lsof     |-> [state |-> ls, lines |-> ll]]) :
        <<ls, ll>> \in CommandStates \X Outputs}

\* the callback of rl.question at both prompts with every line
AnswerCalls ==
    {Call("questionCallback", [brutal |-> b, answer |-> a]) :
        <<b, a>> \in BOOLEAN \X AnswerLines}

\* getDirectorySize(dirpath) on a directory whose listing throws and on
\* every tree of two levels
IsSizeCall(u) ==
    \/ u = Call("getDirectorySize", Dir("ok", "error", << >>))
    \/ \E n \in 0..MaxEntries : \E es \in RootListings(n) :
           u = Call("getDirectorySize", Dir("ok", "ok", es))

InitFn ==
    /\ argv = << >>
    /\ fs = << >>
    /\ pc = "idle"
    /\ options = NoOptions
    /\ idx = 0
    /\ promise = << >>
    /\ prompts = {}
    /\ procs = << >>
    /\ allState = "none"
    /\ remaining = 0
    /\ micro = << >>
    /\ trace = << >>
    /\ exitCode = -1
    /\ \/ unit \in KillCalls \cup ScanCalls \cup AnswerCalls
       \/ IsSizeCall(unit)

CallKillProcesses ==
    /\ unit.fn = "killProcesses" /\ ~unit.done
    /\ unit' = Return(killProcesses(unit.in.ps, unit.in.ok))
    /\ UNCHANGED progVars

CallGetProcesses ==
    /\ unit.fn = "getProcessesUsingDirectory" /\ ~unit.done
    /\ unit' = Return(getProcessesUsingDirectory(unit.in))
    /\ UNCHANGED progVars

CallQuestionCallback ==
    /\ unit.fn = "questionCallback" /\ ~unit.done
    /\ unit' = Return(questionCallback(unit.in.brutal, unit.in.answer))
    /\ UNCHANGED progVars

CallGetDirectorySize ==
    /\ unit.fn = "getDirectorySize" /\ ~unit.done
    /\ unit' = Return(getDirectorySize(unit.in))
    /\ UNCHANGED progVars

NextFn ==
    \/ CallKillProcesses
    \/ CallGetProcesses
    \/ CallQuestionCallback
    \/ CallGetDirectorySize

SpecFn == InitFn /\ [][NextFn]_vars

(* ------------------- vocabulary of the properties --------------------- *)

\* targets whose executor has been entered
Started == {i \in DOMAIN promise : promise[i] # "none"}

Has(op, i) == \E k \in DOMAIN trace : trace[k].op = op /\ trace[k].tgt = i

HasVal(op, i, val) ==
    \E k \in DOMAIN trace :
        trace[k].op = op /\ trace[k].tgt = i /\ trace[k].val = val

Count(op, i) ==
    Cardinality({k \in DOMAIN trace : trace[k].op = op /\ trace[k].tgt = i})

\* the listing of target i found no entry / found entries
FoundEmpty(i) == HasVal("readdir", i, "empty")
FoundNonEmpty(i) == HasVal("readdir", i, "nonempty")

\* the user typed y or yes (any case) at the prompt of target i
SaidYes(i) ==
    \E k \in DOMAIN trace :
        /\ trace[k].op = "answer" /\ trace[k].tgt = i
        /\ trace[k].val \in {"y", "Y", "yes", "YES", "Yes"}

\* the user typed something else at the prompt of target i
Declined(i) == Has("answer", i) /\ ~SaidYes(i)

\* confirmation and process handling left target i alone
GateUntouched(i) ==
    ~Has("size", i) /\ ~Has("prompt", i) /\ ~Has("answer", i)

ScannerUntouched(i) == ~Has("scan", i) /\ ~Has("kill", i)

\* the run went past the usage checks into target processing
Processing == promise # << >>

Exited == pc = "exited"

\* remove returned without error on target i after every gate was passed
Succeeded(i) ==
    /\ HasVal("rmdir", i, "ok")
    /\ \/ FoundEmpty(i)
       \/ /\ options.force \/ options.brutal
          /\ options.yes \/ SaidYes(i)

NoFlags == ~options.force /\ ~options.brutal /\ ~options.yes

FsOps == {"stat", "readdir", "size", "rmdir", "prompt", "answer", "scan", "kill"}

NoFsWork == \A k \in DOMAIN trace : trace[k].op \notin FsOps

HelpTokens == {"--help", "-h", "--version", "-v"}

KnownFlags == HelpTokens \cup {"--force", "-f", "--brutal", "-b", "--yes", "-y"}

\* the argument list about to be parsed holds a help or version flag
AsksHelp == pc = "parse" /\ \E k \in DOMAIN argv : argv[k] \in HelpTokens

\* the argument list about to be parsed holds an unrecognized option
HasUnknownOption ==
    pc = "parse" /\ \E k \in DOMAIN argv : argv[k] \in DashTokens \ KnownFlags

(* ------------------------------- claims ------------------------------- *)

\* C1: every remove of a non-empty target in a run without --yes comes
\* after an affirmative answer at that target's prompt; a declined target
\* is never removed.
C1_RemoveOnlyAfterYes ==
    \A k \in DOMAIN trace :
        LET i == trace[k].tgt IN
        (trace[k].op = "rmdir" /\ FoundNonEmpty(i) /\ ~options.yes)
            => \E m \in 1..(k - 1) :
                   /\ trace[m].op = "answer" /\ trace[m].tgt = i
                   /\ trace[m].val \in {"y", "Y", "yes", "YES", "Yes"}

\* C2: when the process has exited and some target failed, every other
\* target that is non-empty, authorized by --force/--brutal and confirmed
\* (by its answer or by --yes) has had remove invoked on it.
C2_FailureBlocksNoOther ==
    (Exited /\ Processing) =>
        \A f \in DOMAIN promise, i \in DOMAIN promise :
            ( /\ f # i
              /\ promise[f] = "rejected"
              /\ FoundNonEmpty(i)
              /\ options.force \/ options.brutal
              /\ options.yes \/ SaidYes(i) )
            => Has("rmdir", i)

\* C3: a target found non-empty in a run with neither --force nor --brutal
\* is rejected: never removed, never prompted for, never scanned; the run
\* never waits for input and exits with code 1.
C3_NonEmptyNeedsFlag ==
    \A i \in Started :
        (FoundNonEmpty(i) /\ ~options.force /\ ~options.brutal) =>
            /\ ~Has("rmdir", i)
            /\ GateUntouched(i)
            /\ ScannerUntouched(i)
            /\ promise[i] = "rejected"
            /\ fs[options.directories[i]] = "nonempty"
            /\ prompts = {}
            /\ pc = "loop" => micro # << >>
            /\ Exited => exitCode = 1

\* C3 witness: such a run has exited, with --yes given as well
C3_Witness ==
    /\ Exited /\ options.yes
    /\ \E i \in Started :
           FoundNonEmpty(i) /\ ~options.force /\ ~options.brutal

\* the remove of target i follows its listing at once, and is its only one
RemovedDirectly(i) ==
    /\ Count("rmdir", i) = 1
    /\ \E k \in DOMAIN trace :
           /\ trace[k].op = "readdir" /\ trace[k].tgt = i
           /\ k < Len(trace)
           /\ trace[k + 1].op = "rmdir" /\ trace[k + 1].tgt = i

\* C4 as stated: a target found empty is removed directly and reported as
\* succeeded whatever the flags, and the gate and the scanner are never
\* invoked for it.
C4_EmptyAlwaysSucceeds ==
    \A i \in Started :
        FoundEmpty(i) =>
            /\ RemovedDirectly(i)
            /\ promise[i] = "true"
            /\ GateUntouched(i) /\ ScannerUntouched(i)

\* C4 amended: a target found empty is removed directly whatever the flags,
\* without the gate or the scanner; it is reported as succeeded exactly when
\* that remove returned without error, and as failed when it threw.
C4_EmptyRemovedDirectly ==
    \A i \in Started :
        FoundEmpty(i) =>
            /\ RemovedDirectly(i)
            /\ GateUntouched(i) /\ ScannerUntouched(i)
            /\ HasVal("rmdir", i, "ok") => promise[i] = "true"
            /\ HasVal("rmdir", i, "error") => promise[i] = "rejected"

\* C4 witness: an empty target removed in a run with --brutal and --yes
C4_Witness ==
    /\ options.brutal /\ options.yes
    /\ \E i \in Started :
           FoundEmpty(i) /\ HasVal("rmdir", i, "ok") /\ promise[i] = "true"

\* C5: a run that reached target processing and exited has exit code 0
\* exactly when every target succeeded, and exit code 1 otherwise.
C5_ExitCodeIffAllSucceeded ==
    (Exited /\ Processing) =>
        /\ exitCode \in {0, 1}
        /\ exitCode = 0 <=> \A i \in DOMAIN promise : Succeeded(i)

\* C5 witness: two targets, the second confirmed at its prompt, exit code 0
C5_Witness ==
    /\ Exited /\ Processing /\ exitCode = 0
    /\ Len(promise) = 2 /\ SaidYes(2)

\* C6: every run that exits with code 1 because not every target succeeded
\* has printed the summary line "k out of n".
C6_SummaryBeforeExit1 ==
    (Exited /\ Processing /\ exitCode = 1) =>
        \E k \in DOMAIN trace :
            /\ trace[k].op = "summary"
            /\ trace[k].num = Cardinality({i \in DOMAIN promise : Succeeded(i)})

\* targets found missing when they were inspected
Missing == {i \in DOMAIN promise : HasVal("stat", i, "ENOENT")}

\* every target is, at the end of a run without flags, a path that was
\* missing or an empty directory from the start
OnlyMissingOrEmpty ==
    /\ Exited /\ Processing /\ NoFlags
    /\ \A i \in DOMAIN promise :
           fs[options.directories[i]] \in {"missing", "empty"}

\* what C7 says of the targets themselves
C7_AllAttempted ==
    \A i \in DOMAIN promise :
        /\ Has("stat", i)
        /\ i \in Missing \/ FoundEmpty(i)
        /\ FoundEmpty(i) => Has("rmdir", i)
        /\ i \in Missing => promise[i] = "rejected" /\ ~Has("rmdir", i)

\* C7 as stated: with M of N targets missing and the others empty, all N
\* are inspected, every empty one has remove invoked, every missing one is
\* reported as a failure, and the exit code is 1 when M > 0 and 0 when M = 0.
C7_ExitByMissingCount ==
    OnlyMissingOrEmpty =>
        /\ C7_AllAttempted
        /\ exitCode = IF Missing # {} THEN 1 ELSE 0

\* C7 amended: as C7, but the exit code is 0 exactly when no target was
\* found missing and no remove threw; it is 1 otherwise.
C7_ExitByMissingOrRemoveError ==
    OnlyMissingOrEmpty =>
        /\ C7_AllAttempted
        /\ exitCode \in {0, 1}
        /\ exitCode = 0 <=>
               /\ Missing = {}
               /\ \A i \in DOMAIN promise : ~HasVal("rmdir", i, "error")

\* C7 witness: a missing target first, an empty one removed after it, exit 1
C7_Witness ==
    /\ OnlyMissingOrEmpty
    /\ Len(promise) = 2 /\ Missing = {1}
    /\ HasVal("rmdir", 2, "ok") /\ exitCode = 1

CallbackPending(i) ==
    \E k \in DOMAIN micro : micro[k].k = "cb1" /\ micro[k].t = i

SummaryPrinted ==
    \E k \in DOMAIN trace :
        /\ trace[k].op = "summary"
        /\ trace[k].num = Cardinality({i \in DOMAIN promise : Succeeded(i)})

\* C8: a declined target's result is the value false, never a rejection and
\* never true, whatever happens afterwards; a run with a declined target
\* and no failed target ends only after every target has its result, with
\* the summary count printed and exit code 1.
C8_DeclineIsCancelled ==
    /\ \A i \in Started :
           Declined(i) =>
               promise[i] = IF CallbackPending(i) THEN "pending" ELSE "false"
    /\ ( /\ Exited /\ Processing
         /\ \E i \in DOMAIN promise : Declined(i)
         /\ \A j \in DOMAIN promise : promise[j] # "rejected" )
       => /\ \A j \in DOMAIN promise : promise[j] \in {"true", "false"}
          /\ prompts = {}
          /\ SummaryPrinted
          /\ exitCode = 1

\* C8 witness: first target declined, second confirmed and removed, exit 1
C8_Witness ==
    /\ Exited /\ exitCode = 1 /\ SummaryPrinted
    /\ Len(promise) = 2 /\ Declined(1) /\ Succeeded(2)

\* C9: with --yes the gate never computes a size, shows a prompt or reads an
\* answer, and when a --force --yes run has exited every target found
\* non-empty has had remove invoked (and succeeded unless remove threw).
C9_YesDeletesEveryNonEmpty ==
    /\ options.yes => \A i \in Started : GateUntouched(i)
    /\ (Exited /\ Processing /\ options.yes /\ options.force) =>
           \A i \in DOMAIN promise :
               FoundNonEmpty(i) =>
                   /\ Has("rmdir", i)
                   /\ HasVal("rmdir", i, "ok") => promise[i] = "true"

\* C10 as stated: an argument list holding a help or version flag leads to
\* exit code 0 and to no file system work, prompt, scan or kill.
C10_HelpAlwaysExits0 ==
    /\ [][AsksHelp => (NoFsWork' /\ (Exited' => exitCode' = 0))]_vars
    /\ []((options.help \/ options.version) =>
              (NoFsWork /\ ~Processing /\ (Exited => exitCode = 0)))

\* C10 amended: an argument list holding a help or version flag never leads
\* to file system work, prompt, scan or kill; the exit code is 0 unless the
\* list also holds an unrecognized option, and then it is 1.
C10_HelpNeverTouchesFs ==
    /\ [][AsksHelp =>
            IF HasUnknownOption
            THEN Exited' /\ exitCode' = 1 /\ NoFsWork'
            ELSE ~Exited' /\ options'.unknown = ""
                 /\ (options'.help \/ options'.version)]_vars
    /\ []((options.help \/ options.version) =>
              /\ NoFsWork /\ ~Processing
              /\ pc \in {"parse", "main", "exited"}
              /\ Exited => exitCode = IF options.unknown = "" THEN 0 ELSE 1)

\* C10 witness: exit code 0 on a list with a help flag, --force and a target
C10_Witness ==
    /\ Exited /\ exitCode = 0 /\ options.help
    /\ options.force /\ Len(options.directories) > 0

\* usage was printed and the process then exited
UsagePrinted ==
    \E k \in DOMAIN trace : trace[k].op = "usage" /\ k < Len(trace)

\* the argument list about to be parsed names no target
NoTargetGiven == pc = "parse" /\ PathsOf(argv) = {}

\* C11: an unrecognized option anywhere in the argument list, or an
\* argument list with no target and neither help nor version, ends the
\* process with code 1 after usage was printed, and no target is
\* inspected, prompted for, scanned or removed, even when a valid target
\* precedes the offending token.
C11_UsageErrorsFatal ==
    /\ [][HasUnknownOption =>
              /\ Exited' /\ exitCode' = 1 /\ UsagePrinted'
              /\ NoFsWork' /\ ~Processing']_vars
    /\ [][(NoTargetGiven /\ ~AsksHelp /\ ~HasUnknownOption) =>
              /\ options'.directories = << >> /\ options'.unknown = ""
              /\ ~options'.help /\ ~options'.version /\ pc' = "main"]_vars
    /\ []((/\ pc # "parse" /\ options.unknown = ""
           /\ options.directories = << >>
           /\ ~options.help /\ ~options.version) =>
              /\ NoFsWork /\ ~Processing
              /\ pc \in {"main", "exited"}
              /\ Exited => exitCode = 1 /\ UsagePrinted)

\* an unrecognized option after a valid target ended the run with code 1
C11_Witness ==
    /\ Exited /\ exitCode = 1 /\ UsagePrinted
    /\ options.unknown # "" /\ Len(options.directories) > 0

\* the outer promise of target i is settled: the target is done
Done(i) == promise[i] \in {"true", "false", "rejected"}

\* C12: targets are processed one after the other: the inspection of a
\* target begins only when the target before it is done (prompt answered,
\* kill phase and deletion over), and at most one prompt is open at any
\* moment.
C12_StrictlySequential ==
    /\ Cardinality(prompts) <= 1
    /\ \A i \in DOMAIN promise :
           (i > 1 /\ Has("stat", i)) => (Done(i - 1) /\ (i - 1) \notin prompts)

\* killProcesses has returned
Killed == unit.fn = "killProcesses" /\ unit.done

\* positions of ps that hold p
Occurrences(ps, p) == Cardinality({k \in DOMAIN ps : ps[k] = p})

\* every handle was tried exactly once and in order, whatever came before it
TriedEachOnce ==
    /\ Len(unit.out.tried) = Len(unit.in.ps)
    /\ \A k \in DOMAIN unit.in.ps :
           /\ unit.out.tried[k].pid = unit.in.ps[k]
           /\ unit.out.tried[k].ok = unit.in.ok[k]

\* killed and failed split the input: each handle is in exactly one list
Partitions(killed, failed) ==
    /\ Len(killed) + Len(failed) = Len(unit.in.ps)
    /\ killed = SelectSeq([k \in DOMAIN unit.in.ps |->
                              IF unit.in.ok[k] THEN unit.in.ps[k] ELSE 0],
                          LAMBDA x : x # 0)
    /\ failed = SelectSeq([k \in DOMAIN unit.in.ps |->
                              IF unit.in.ok[k] THEN 0 ELSE unit.in.ps[k]],
                          LAMBDA x : x # 0)

Accepted(i) == options.yes \/ SaidYes(i)

\* remove was invoked on target i after its process scan
DeletedAfterScan(i) ==
    \E k, m \in DOMAIN trace :
        /\ k < m
        /\ trace[k].op = "scan" /\ trace[k].tgt = i
        /\ trace[m].op = "rmdir" /\ trace[m].tgt = i

\* C14: in brutal mode, when the process has exited, every target that was
\* found non-empty and whose confirmation was accepted has had remove
\* invoked on it after its scan/kill phase, whatever the scan found and
\* whatever the terminations did.
C14_BrutalAlwaysDeletes ==
    Exited =>
        \A i \in DOMAIN promise :
            (/\ options.brutal
             /\ FoundNonEmpty(i)
             /\ Accepted(i)) => DeletedAfterScan(i)

\* getProcessesUsingDirectory has returned
Scanned == unit.fn = "getProcessesUsingDirectory" /\ unit.done

\* the output of command c when it was run and gave one, << >> otherwise
OutputOf(c) ==
    IF c = "handle" /\ unit.in.handle.state = "ran" THEN unit.in.handle.lines
    ELSE IF c = "tasklist" /\ unit.in.tasklist.state = "ok"
    THEN unit.in.tasklist.lines
    ELSE IF c = "lsof" /\ unit.in.lsof.state = "ok" THEN unit.in.lsof.lines
    ELSE << >>

\* the process ids reported by the lines of the commands that were run
ReportedPids ==
    {p \in Pids :
        \E k \in DOMAIN unit.out.cmds :
            \E n \in DOMAIN OutputOf(unit.out.cmds[k]) :
                LET l == OutputOf(unit.out.cmds[k])[n] IN
                l.parts >= 2 /\ l.pid = p}

NoDuplicates(ps) == \A k, m \in DOMAIN ps : ps[k] = ps[m] => k = m

\* C15: whatever lines the listing command printed, the list that
\* getProcessesUsingDirectory resolves with holds no process id twice, and
\* holds a process id exactly when some parsed line reported it.
C15_HandlesKeyedByPid ==
    Scanned =>
        /\ NoDuplicates(unit.out.processes)
        /\ Range(unit.out.processes) \cap Pids = ReportedPids

\* two lines reported the same process and it was returned once
C15_Witness ==
    /\ Scanned
    /\ unit.in.platform = "linux"
    /\ Len(unit.in.lsof.lines) = 2
    /\ unit.in.lsof.lines[1] = unit.in.lsof.lines[2]
    /\ Len(unit.out.processes) = 1

\* the inspection of target i failed: missing, not a directory, permission
\* denied or another stat error
InspectionFailed(i) == Has("stat", i) /\ ~HasVal("stat", i, "ok")

\* nothing but the inspection was done on target i
OnlyInspected(i) ==
    \A k \in DOMAIN trace :
        trace[k].tgt = i => trace[k].op = "stat"

\* C16: a target whose inspection fails, whatever flags are set, is
\* rejected at once and makes the run fail; it is never listed, sized,
\* prompted for, scanned for processes or removed.
C16_InspectionFailureRejects ==
    \A i \in DOMAIN promise :
        InspectionFailed(i) =>
            /\ promise[i] = "rejected"
            /\ OnlyInspected(i)
            /\ Count("stat", i) = 1
            /\ Exited => exitCode = 1

\* a permission-denied target in a --brutal --yes run was rejected and the
\* run ended
C16_Witness ==
    /\ Exited /\ options.brutal /\ options.yes
    /\ \E i \in DOMAIN promise :
           HasVal("stat", i, "EACCES") /\ promise[i] = "rejected"

\* an affirmative answer for target i came before position k of the trace
YesBefore(i, k) ==
    \E m \in 1..(k - 1) :
        /\ trace[m].op = "answer" /\ trace[m].tgt = i
        /\ trace[m].val \in {"y", "Y", "yes", "YES", "Yes"}

\* C17: at every moment of every run, a process scan or kill has happened
\* for a target only when --brutal is set, the listing did not find the
\* target empty, and its confirmation was accepted before (by --yes or by
\* an affirmative answer); so never
\* with --force alone and never after a declined brutal prompt; and every
\* kill comes after the target's scan and before its remove.
C17_ScanKillOnlyInBrutalKill ==
    [](\A k \in DOMAIN trace :
          LET i == trace[k].tgt IN
          trace[k].op \in {"scan", "kill"} =>
              /\ options.brutal
              /\ Has("readdir", i) /\ ~FoundEmpty(i)
              /\ options.yes \/ YesBefore(i, k)
              /\ ~Declined(i)
              /\ \A m \in 1..(k - 1) :
                     ~(trace[m].op = "rmdir" /\ trace[m].tgt = i)
              /\ trace[k].op = "kill" =>
                     \E m \in 1..(k - 1) :
                         trace[m].op = "scan" /\ trace[m].tgt = i)

\* after a yes at the brutal prompt a process was killed and the target
\* was then removed
C17_Witness ==
    \E k, m \in DOMAIN trace :
        /\ k < m
        /\ trace[k].op = "kill" /\ trace[m].op = "rmdir"
        /\ trace[k].tgt = trace[m].tgt
        /\ SaidYes(trace[k].tgt)

\* the callback of rl.question has returned
Answered == unit.fn = "questionCallback" /\ unit.done

\* the lines that are y or yes up to the case of their letters
Affirmative == {"y", "Y", "yes", "YES", "Yes", "yEs"}

\* C18: at the normal and at the brutal prompt alike, the confirmation is
\* true exactly when the line typed is y or yes in any case of letters,
\* with nothing around it; for every other line, the empty one included,
\* it is false and "Operation cancelled." is printed.
C18_YesOnlyForYOrYes ==
    Answered =>
        /\ unit.out.confirmed = (unit.in.answer \in Affirmative)
        /\ unit.out.cancelled = ~unit.out.confirmed

\* "yes" followed by a blank was taken as a refusal at the brutal prompt
C18_Witness ==
    /\ Answered /\ unit.in.brutal /\ unit.in.answer = "yes "
    /\ ~unit.out.confirmed /\ unit.out.cancelled

\* the listing of target i threw
ListingFailed(i) == HasVal("readdir", i, "error")

\* this step invokes remove on target i
Removes(i) == Count("rmdir", i)' > Count("rmdir", i)

\* C19: a target whose listing throws is treated as not empty: without
\* --force and --brutal it is rejected and never removed; with one of
\* them, remove is invoked on it only by the callback that follows the
\* confirmation gate (after --yes or after an answer at its prompt), never
\* directly as for an empty directory.
C19_ReadErrorIsNotEmpty ==
    /\ [](\A i \in DOMAIN promise :
              (ListingFailed(i) /\ ~options.force /\ ~options.brutal) =>
                  /\ promise[i] = "rejected"
                  /\ HasVal("notEmptyMsg", i, "")
                  /\ GateUntouched(i) /\ ScannerUntouched(i)
                  /\ ~Has("rmdir", i))
    /\ [][\A i \in DOMAIN promise :
              (Removes(i) /\ ListingFailed(i)') =>
                  /\ Running("cb2") /\ Head(micro).t = i
                  /\ options.force \/ options.brutal
                  /\ options.yes \/ Has("answer", i)]_vars

\* an unreadable target was removed after a yes at its prompt
C19_Witness ==
    \E i \in DOMAIN promise :
        ListingFailed(i) /\ SaidYes(i) /\ HasVal("rmdir", i, "ok")

\* the process scan ran on Windows
ScannedWin32 == Scanned /\ unit.in.platform = "win32"

Attempted(c) == \E k \in DOMAIN unit.out.cmds : unit.out.cmds[k] = c

\* command c was attempted and gave no usable output
CommandFailed(c) ==
    IF c = "handle" THEN unit.in.handle.state # "ran"
    ELSE IF c = "tasklist" THEN unit.in.tasklist.state # "ok"
    ELSE unit.in.lsof.state # "ok"

\* C20: on Windows handle.exe is tried first; whenever it is missing or
\* its invocation fails, the task-listing command is attempted; whenever
\* every attempted command fails the result is the empty list; and the
\* scan always resolves, no error leaves it.
C20_WindowsFallback ==
    ScannedWin32 =>
        /\ unit.out.cmds[1] = "handle"
        /\ unit.in.handle.state # "ran" => Attempted("tasklist")
        /\ (\A k \in DOMAIN unit.out.cmds : CommandFailed(unit.out.cmds[k]))
               => unit.out.processes = << >>
        /\ unit.out.state = "fulfilled"

\* getDirectorySize has returned
Sized == unit.fn = "getDirectorySize" /\ unit.done

\* the files below a directory that can be read, with the subtree of every
\* failing entry left out and nothing else
RECURSIVE ReadableFiles(_)
ReadableFiles(dir) ==
    IF dir.list = "error" THEN << >>
    ELSE LET Below(e) == IF e.stat = "error" THEN << >>
                         ELSE IF e.kind = "dir" THEN ReadableFiles(e)
                         ELSE <<e.size>>
             Join[k \in 0..Len(dir.entries)] ==
                 IF k = 0 THEN << >>
                 ELSE Join[k - 1] \o Below(dir.entries[k])
         IN Join[Len(dir.entries)]

RECURSIVE SumSeq(_)
SumSeq(q) == IF q = << >> THEN 0 ELSE Head(q) + SumSeq(Tail(q))

\* C21: getDirectorySize always returns, with files the number of
\* non-directory descendants and size the sum of their sizes; an entry
\* that cannot be read takes only its own subtree out of the totals, and
\* every other readable file, the later siblings of the failing entry
\* included, is counted.
C21_SizeOmitsOnlyFailingSubtree ==
    Sized =>
        /\ unit.out.files = Len(ReadableFiles(unit.in))
        /\ unit.out.size = SumSeq(ReadableFiles(unit.in))

\* the tally of lines 725-740 was printed
TallyPrinted ==
    \E k \in DOMAIN trace : trace[k].op \in {"allDeleted", "summary"}

\* target i is one of the successCount targets of the tally
CountedAsSucceeded(i) == promise[i] = "true"

\* target i was reported as cancelled, or as failed before any deletion
ReportedNotDeleted(i) ==
    \/ Has("cancelled", i)
    \/ InspectionFailed(i)
    \/ Has("notEmptyMsg", i)

\* C22: what is reported about a target agrees with what was done to it:
\* in the final tally a target counts as succeeded exactly when remove
\* was invoked on it and returned without error, and remove is never
\* invoked on a target reported as cancelled or as failed before deletion.
C22_OutcomeAgreesWithRemove ==
    /\ TallyPrinted =>
           \A i \in DOMAIN promise :
               CountedAsSucceeded(i) <=> HasVal("rmdir", i, "ok")
    /\ \A i \in DOMAIN promise :
           ReportedNotDeleted(i) => ~Has("rmdir", i)

\* remove threw on target i at position k of the trace
RemoveFailedAt(i, k) ==
    trace[k].op = "rmdir" /\ trace[k].tgt = i /\ trace[k].val = "error"

\* C23: remove is invoked at most once per target of the argument list
\* (a path given twice is two targets); after remove threw, the target is
\* failed (its promise is rejected with the error) and nothing more is
\* done to it: no second remove, no scan, no kill.
C23_RemoveNeverRetried ==
    \A i \in DOMAIN promise :
        /\ Count("rmdir", i) <= 1
        /\ \A k \in DOMAIN trace :
               RemoveFailedAt(i, k) =>
                   /\ promise[i] = "rejected"
                   /\ \A m \in (k + 1)..Len(trace) :
                          trace[m].tgt = i =>
                              trace[m].op \notin {"rmdir", "scan", "kill"}

\* the same, for the targets that were not declined at their prompt
C23_RemoveNeverRetriedUnlessDeclined ==
    \A i \in DOMAIN promise :
        /\ Count("rmdir", i) <= 1
        /\ \A k \in DOMAIN trace :
               RemoveFailedAt(i, k) =>
                   /\ Declined(i) \/ promise[i] = "rejected"
                   /\ \A m \in (k + 1)..Len(trace) :
                          trace[m].tgt = i =>
                              trace[m].op \notin {"rmdir", "scan", "kill"}

=============================================================================
